---------------------------- MODULE Spec2Model ----------------------------
(***************************************************************************)
(* A model of src/server.js: an Express application with a CORS gate, a    *)
(* global JSON body parser, POST /create-payment-intent, POST /webhook and *)
(* GET /.  JavaScript values, texts and the conversions between them       *)
(* (String(v), JSON.parse, toLowerCase) are modelled structurally.         *)
(***************************************************************************)
EXTENDS Integers, Sequences, FiniteSets, TLC

VARIABLES
    allowed,            \* server.js:12   the origin allow-list
    allowedCurrencies,  \* server.js:26   the currency allow-set
    endpointSecret,     \* server.js:61   process.env.STRIPE_WEBHOOK_SECRET
    reqs,               \* the requests: what was sent, where each one is, its response
    calls,              \* per request, the stripe.paymentIntents.create calls it made
    probe               \* an argument handed to isValidAmount and what it returned

vars == <<allowed, allowedCurrencies, endpointSecret, reqs, calls, probe>>

-----------------------------------------------------------------------------
(* Bounds of the model.                                                    *)

\* How many requests the server receives in one behaviour.
MaxRequests == 2
\* isValidAmount is probed on the integers within MaxProbe of 0 and of the ceiling.
MaxProbe == 6

-----------------------------------------------------------------------------
(* JavaScript values.  Every value is a record with a tag t.               *)

Undefined == [t |-> "undefined"]
Null == [t |-> "null"]
\* The finite number num/den (den > 0); den = 0 stands for the non-finite
\* numbers: NaN (num = 0), Infinity (num = 1), -Infinity (num = -1).
Num(n, d) == [t |-> "number", num |-> n, den |-> d]
Whole(n) == Num(n, 1)
Bool(b) == [t |-> "boolean", b |-> b]
Str(text) == [t |-> "string", text |-> text]
Arr(elems) == [t |-> "array", elems |-> elems]
Buffer(text) == [t |-> "buffer", text |-> text]
EmptyObject == [t |-> "object"]

(* Texts (the contents of strings and of bodies on the wire).  A text is   *)
(* a sequence of characters, a fixed literal that no operation looks into, *)
(* or the JSON serialization of an object, an array or a string.           *)
Chars(cs) == [k |-> "chars", cs |-> cs]
Lit(s) == [k |-> "lit", s |-> s]
JsonOf(v) == [k |-> "json", of |-> v]

\* obj.name: undefined for a property the object lacks and for the
\* properties of a primitive.
Get(obj, name) ==
    IF obj.t = "object" /\ name \in DOMAIN obj THEN obj[name] ELSE Undefined

\* Whether reading a property of v throws a TypeError.
ThrowsOnRead(v) == v.t \in {"undefined", "null"}

Truthy(v) ==
    CASE v.t \in {"undefined", "null"} -> FALSE
      [] v.t = "boolean" -> v.b
      [] v.t = "number" -> v.num # 0
      [] v.t = "string" -> v.text # Chars(<<>>)
      [] OTHER -> TRUE

DigitChars == <<"0", "1", "2", "3", "4", "5", "6", "7", "8", "9">>

RECURSIVE Digits(_)
Digits(n) ==
    IF n < 10 THEN <<DigitChars[n + 1]>>
    ELSE Digits(n \div 10) \o <<DigitChars[(n % 10) + 1]>>

\* String(v) for a number: integers and halves are all the model holds.
NumberToString(v) ==
    IF v.den = 0
    THEN Lit(IF v.num = 0 THEN "NaN" ELSE IF v.num > 0 THEN "Infinity" ELSE "-Infinity")
    ELSE LET neg == v.num < 0
             a == IF neg THEN -v.num ELSE v.num
             whole == Digits(a \div v.den)
             frac == IF a % v.den = 0 THEN <<>> ELSE <<".", "5">>
         IN Chars((IF neg THEN <<"-">> ELSE <<>>) \o whole \o frac)

\* String(v).  An array of at most one element is all the model holds:
\* Array.prototype.join gives "" for [], and for [x] the string of x, with
\* "" for null and undefined.
RECURSIVE StringOf(_)
StringOf(v) ==
    CASE v.t = "undefined" -> Lit("undefined")
      [] v.t = "null" -> Lit("null")
      [] v.t = "boolean" -> Lit(IF v.b THEN "true" ELSE "false")
      [] v.t = "number" -> NumberToString(v)
      [] v.t = "string" -> v.text
      [] v.t = "buffer" -> v.text
      [] v.t = "array" ->
            IF Len(v.elems) = 0 \/ v.elems[1].t \in {"undefined", "null"}
            THEN Chars(<<>>)
            ELSE StringOf(v.elems[1])
      [] OTHER -> Lit("[object Object]")

UpperCase == <<"A", "B", "C", "D", "E", "F", "G", "H", "I", "J", "K", "L", "M",
               "N", "O", "P", "Q", "R", "S", "T", "U", "V", "W", "X", "Y", "Z">>
LowerCase == <<"a", "b", "c", "d", "e", "f", "g", "h", "i", "j", "k", "l", "m",
               "n", "o", "p", "q", "r", "s", "t", "u", "v", "w", "x", "y", "z">>

LowerChar(c) ==
    IF \E i \in 1..Len(UpperCase) : UpperCase[i] = c
    THEN LowerCase[CHOOSE i \in 1..Len(UpperCase) : UpperCase[i] = c]
    ELSE c

\* String.prototype.toLowerCase.  Of the literals only those with capitals
\* change; a JSON serialization starts with a brace, a bracket or a quote
\* whatever its case.
ToLowerCase(text) ==
    CASE text.k = "chars" -> Chars([i \in 1..Len(text.cs) |-> LowerChar(text.cs[i])])
      [] text.k = "lit" ->
            Lit(CASE text.s = "[object Object]" -> "[object object]"
                  [] text.s = "NaN" -> "nan"
                  [] text.s = "Infinity" -> "infinity"
                  [] text.s = "-Infinity" -> "-infinity"
                  [] OTHER -> text.s)
      [] OTHER -> text

IsDigit(c) == \E i \in 1..10 : DigitChars[i] = c

RECURSIVE NumberOf(_)
NumberOf(cs) ==
    IF Len(cs) = 0 THEN 0
    ELSE 10 * NumberOf(SubSeq(cs, 1, Len(cs) - 1))
         + (CHOOSE i \in 1..10 : DigitChars[i] = cs[Len(cs)]) - 1

\* A JSON integer literal: digits, no leading zero, an optional minus sign.
IsIntLiteral(cs) ==
    LET ds == IF Len(cs) > 0 /\ cs[1] = "-" THEN Tail(cs) ELSE cs
    IN /\ Len(ds) > 0
       /\ \A i \in 1..Len(ds) : IsDigit(ds[i])
       /\ (Len(ds) > 1 => ds[1] # "0")

\* A JSON literal of a half: an integer literal followed by ".5".
IsHalfLiteral(cs) ==
    /\ Len(cs) > 2
    /\ SubSeq(cs, Len(cs) - 1, Len(cs)) = <<".", "5">>
    /\ IsIntLiteral(SubSeq(cs, 1, Len(cs) - 2))

\* The number an integer literal denotes.
IntegerOf(cs) == IF cs[1] = "-" THEN -NumberOf(Tail(cs)) ELSE NumberOf(cs)

\* The number a half's literal denotes, as a fraction over 2.
HalfOf(cs) ==
    LET whole == SubSeq(cs, 1, Len(cs) - 2)
    IN IF whole[1] = "-" THEN Num(2 * IntegerOf(whole) - 1, 2)
       ELSE Num(2 * IntegerOf(whole) + 1, 2)

\* JSON.parse of a text.  Of the number literals, integers and halves are
\* all the model's texts hold.
ParseText(text) ==
    CASE text.k = "json" -> [ok |-> TRUE, v |-> text.of]
      [] text.k = "lit" ->
            CASE text.s = "null" -> [ok |-> TRUE, v |-> Null]
              [] text.s = "true" -> [ok |-> TRUE, v |-> Bool(TRUE)]
              [] text.s = "false" -> [ok |-> TRUE, v |-> Bool(FALSE)]
              [] OTHER -> [ok |-> FALSE, message |-> "Unexpected token in JSON"]
      [] OTHER ->
            IF IsIntLiteral(text.cs) THEN [ok |-> TRUE, v |-> Whole(IntegerOf(text.cs))]
            ELSE IF IsHalfLiteral(text.cs) THEN [ok |-> TRUE, v |-> HalfOf(text.cs)]
            ELSE [ok |-> FALSE, message |-> "Unexpected token in JSON"]

\* JSON.parse(v): the argument is converted to a string first.
JSONParse(v) == ParseText(StringOf(v))

-----------------------------------------------------------------------------
(* server.js:22-26  the validators.                                        *)

MaxAmount == 500000000

NumberIsInteger(v) == v.t = "number" /\ v.den # 0 /\ v.num % v.den = 0

isValidAmountOffByOne(v) ==
    /\ NumberIsInteger(v)
    /\ v.num >= 0
    /\ v.num < MaxAmount * v.den

isValidAmount(v) ==
    /\ NumberIsInteger(v)
    /\ v.num > 0
    /\ v.num <= MaxAmount * v.den

CurrencyCodes == {<<"u", "s", "d">>, <<"c", "a", "d">>, <<"e", "u", "r">>,
                  <<"g", "b", "p">>, <<"a", "u", "d">>}

-----------------------------------------------------------------------------
(* Responses and console lines.                                            *)

NoResponse == [status |-> 0]
\* res.status(s).json(obj)
JsonResponse(s, obj) == [status |-> s, json |-> obj]
\* res.status(s).send(text), the text given as its parts
SendResponse(s, parts) == [status |-> s, send |-> parts]

\* Express's final handler answers an error that reached it (next(err), or
\* a throw in a synchronous handler) with err.status, 500 when it has none.
DefaultErrorHandler(err) ==
    [status |-> IF "status" \in DOMAIN err THEN err.status ELSE 500,
     page |-> err.message]

-----------------------------------------------------------------------------
(* server.js:12-18  the CORS gate.                                         *)

\* (process.env.ALLOWED_ORIGINS || '').split(',').filter(Boolean): env is
\* undefined or the sequence of the comma-separated segments of the value.
AllowedFrom(env) ==
    LET segs == IF Truthy(env) THEN env.elems ELSE <<Str(Chars(<<>>))>>
    IN SelectSeq(segs, Truthy)

Includes(list, v) == \E i \in 1..Len(list) : list[i] = v

OriginAllowedNoEmptyList(origin) == ~Truthy(origin) \/ Includes(allowed, origin)

OriginAllowed(origin) ==
    ~Truthy(origin) \/ Len(allowed) = 0 \/ Includes(allowed, origin)

CorsError == [message |-> "Not allowed by CORS"]

-----------------------------------------------------------------------------
(* server.js:20, 59  the body parsers (body-parser's json and raw).        *)

ParseFailed == [status |-> 400, message |-> "entity.parse.failed"]

\* express.json(): a body already parsed is left alone; req.body starts as
\* {}; a request without a body or of another content type is skipped; in
\* strict mode only a text starting with a brace or a bracket is parsed.
JsonParser(req) ==
    IF req.parsed THEN [ok |-> TRUE, body |-> req.body, parsed |-> TRUE]
    ELSE IF req.wire = Undefined \/ req.ctype # "application/json"
    THEN [ok |-> TRUE, body |-> EmptyObject, parsed |-> FALSE]
    ELSE IF req.wire.k = "json" /\ req.wire.of.t \in {"object", "array"}
    THEN [ok |-> TRUE, body |-> req.wire.of, parsed |-> TRUE]
    ELSE [ok |-> FALSE, err |-> ParseFailed]

\* express.raw({type: 'application/json'}): the same skips, then req.body
\* is the Buffer of the bytes.
RawParser(req) ==
    IF req.parsed THEN req.body
    ELSE IF req.wire = Undefined \/ req.ctype # "application/json"
    THEN req.body
    ELSE Buffer(req.wire)

-----------------------------------------------------------------------------
(* server.js:30-55  POST /create-payment-intent.                           *)

Usd == Str(Chars(<<"u", "s", "d">>))

\* A destructuring default: it replaces undefined only.
Default(v, d) == IF v = Undefined THEN d ELSE v

\* Object.fromEntries(Object.entries(metadata || {}).map(([k, v]) => [k, String(v)]))
CoerceMetadata(metadata) ==
    LET m == IF Truthy(metadata) THEN metadata ELSE EmptyObject
        keys == IF m.t = "object" THEN DOMAIN m \ {"t"} ELSE {}
    IN [k \in keys |-> StringOf(m[k])]

\* The argument of stripe.paymentIntents.create (lines 41-48).
CreateArgsNoLowerCase(amountInCents, currency, metadata) ==
    [amount |-> amountInCents,
     currency |-> StringOf(currency),
     automatic_payment_methods |-> TRUE,
     metadata |-> CoerceMetadata(metadata)]

CreateArgs(amountInCents, currency, metadata) ==
    [amount |-> amountInCents,
     currency |-> ToLowerCase(StringOf(currency)),
     automatic_payment_methods |-> TRUE,
     metadata |-> CoerceMetadata(metadata)]

\* The catch block (lines 51-54).
CatchResponseLeaking(err) == JsonResponse(500, [error |-> err.message])

CatchResponse(err) == JsonResponse(500, [error |-> "Server error"])

\* The handler up to its await (lines 31-41): a response, or the call made.
BeforeAwaitCurrencyFirst(body) ==
    LET amountInCents == Get(body, "amountInCents")
        currency == Default(Get(body, "currency"), Usd)
        metadata == Default(Get(body, "metadata"), EmptyObject)
    IN IF ThrowsOnRead(body)
       THEN [call |-> FALSE, response |-> CatchResponse([message |-> "TypeError"]),
             log |-> <<[level |-> "error", text |-> "TypeError"]>>]
       ELSE IF ToLowerCase(StringOf(currency)) \notin allowedCurrencies
       THEN [call |-> FALSE, log |-> <<>>,
             response |-> JsonResponse(400, [error |-> "Unsupported currency"])]
       ELSE IF ~isValidAmount(amountInCents)
       THEN [call |-> FALSE, log |-> <<>>,
             response |-> JsonResponse(400, [error |-> "Invalid amount"])]
       ELSE [call |-> TRUE, args |-> CreateArgs(amountInCents, currency, metadata)]

BeforeAwait(body) ==
    LET amountInCents == Get(body, "amountInCents")
        currency == Default(Get(body, "currency"), Usd)
        metadata == Default(Get(body, "metadata"), EmptyObject)
    IN IF ThrowsOnRead(body)
       THEN [call |-> FALSE, response |-> CatchResponse([message |-> "TypeError"]),
             log |-> <<[level |-> "error", text |-> "TypeError"]>>]
       ELSE IF ~isValidAmount(amountInCents)
       THEN [call |-> FALSE, log |-> <<>>,
             response |-> JsonResponse(400, [error |-> "Invalid amount"])]
       ELSE IF ToLowerCase(StringOf(currency)) \notin allowedCurrencies
       THEN [call |-> FALSE, log |-> <<>>,
             response |-> JsonResponse(400, [error |-> "Unsupported currency"])]
       ELSE [call |-> TRUE, args |-> CreateArgs(amountInCents, currency, metadata)]

\* The handler after its await (lines 50-54): outcome is how the call settled.
AfterAwait(outcome) ==
    IF outcome.ok
    THEN [response |-> JsonResponse(200, [clientSecret |-> outcome.intent.client_secret]),
          log |-> <<>>]
    ELSE [response |-> CatchResponse(outcome.err),
          log |-> <<[level |-> "error", text |-> outcome.err.message]>>]

-----------------------------------------------------------------------------
(* server.js:59-89  POST /webhook.                                         *)

\* A stripe-signature header made with key over the text of a payload.
SignedBy(text, key) == Str([k |-> "sig", over |-> text, key |-> key])

Failure(message) == [ok |-> FALSE, message |-> message]

\* stripe.webhooks.constructEvent(payload, header, secret) (line 66): the
\* signature is computed over the payload as a string and compared with the
\* header's, then the payload is JSON-parsed.
ConstructEvent(payload, sig, secret) ==
    IF ~Truthy(payload) THEN Failure("No webhook payload was provided.")
    ELSE IF ~Truthy(sig)
    THEN Failure("No stripe-signature header value was provided.")
    ELSE IF sig.text.k # "sig"
    THEN Failure("Unable to extract timestamp and signatures from header")
    ELSE IF sig.text.over # StringOf(payload) \/ sig.text.key # secret
    THEN Failure("No signatures found matching the expected signature for payload.")
    ELSE JSONParse(payload)

Succeeded == Str(Lit("payment_intent.succeeded"))
PaymentFailed == Str(Lit("payment_intent.payment_failed"))

\* The switch (lines 73-86): the branch taken, whether it threw a TypeError
\* and what it logged.
Dispatch(event) ==
    LET type == Get(event, "type")
        data == Get(event, "data")
        pi == Get(data, "object")
        lpe == Get(pi, "last_payment_error")
        message == IF ThrowsOnRead(lpe) THEN Undefined ELSE Get(lpe, "message")
    IN IF ThrowsOnRead(event)
       THEN [threw |-> TRUE, branch |-> "none", log |-> <<>>]
       ELSE IF type = Succeeded
       THEN [threw |-> ThrowsOnRead(data), branch |-> "succeeded", log |-> <<>>]
       ELSE IF type = PaymentFailed
       THEN IF ThrowsOnRead(data) \/ ThrowsOnRead(pi)
            THEN [threw |-> TRUE, branch |-> "payment_failed", log |-> <<>>]
            ELSE [threw |-> FALSE, branch |-> "payment_failed",
                  log |-> <<[level |-> "warn", text |-> "Payment failed:",
                             arg |-> message]>>]
       ELSE [threw |-> FALSE, branch |-> "default", log |-> <<>>]

\* The catch block (lines 68-71).
OnVerifyFailureAcknowledging(message) ==
    [branch |-> "none",
     response |-> JsonResponse(200, [received |-> TRUE]),
     log |-> <<[level |-> "error", text |-> message]>>]

OnVerifyFailure(message) ==
    [branch |-> "none",
     response |-> SendResponse(400, <<"Webhook Error: ", message>>),
     log |-> <<[level |-> "error", text |-> message]>>]

Received == JsonResponse(200, [received |-> TRUE])

\* After the switch (line 88), d being what the switch did: a TypeError it
\* threw goes to Express, else the event is acknowledged.
Acknowledge(d) ==
    [branch |-> d.branch, log |-> d.log,
     response |-> IF d.threw THEN DefaultErrorHandler([message |-> "TypeError"])
                  ELSE Received]

\* The try (lines 64-67).
Obtain(body, sig) ==
    IF Truthy(endpointSecret) THEN ConstructEvent(body, sig, endpointSecret)
    ELSE JSONParse(body)

\* Lines 68-88, got being what the try gave.  obtained says whether an
\* event came out of it.
AfterTry(got) ==
    [obtained |-> got.ok, event |-> IF got.ok THEN got.v ELSE Undefined]
    @@ (IF got.ok THEN Acknowledge(Dispatch(got.v)) ELSE OnVerifyFailure(got.message))

\* The handler (lines 59-89) on the body it is given.  verifier says whether
\* constructEvent was invoked.
WebhookHandler(body, sig) ==
    [call |-> FALSE, given |-> body, verifier |-> Truthy(endpointSecret)]
    @@ AfterTry(Obtain(body, sig))

\* The route: express.raw, then the handler.
Webhook(req) == WebhookHandler(RawParser(req), req.sig)

\* server.js:92  GET /
Health == [call |-> FALSE, response |-> SendResponse(200, <<"Stripe backend OK">>),
           log |-> <<>>]

-----------------------------------------------------------------------------
(* The server as a state machine, one action per turn of the event loop:   *)
(* a request arrives and meets the CORS gate; its body is read and the     *)
(* JSON body parser and the route's handler run; the processor settles the *)
(* call a /create-payment-intent handler awaits and the handler resumes.   *)

Requests == 1..MaxRequests

Idle == [pc |-> "idle"]

NewRequest(sent) ==
    [pc |-> "arrived", route |-> sent.route, origin |-> sent.origin,
     ctype |-> sent.ctype, wire |-> sent.wire, sig |-> sent.sig,
     body |-> Undefined, parsed |-> FALSE, handled |-> FALSE,
     response |-> NoResponse, log |-> <<>>]

\* What was sent, as the request record holds it.
Sent(q) == [route |-> q.route, origin |-> q.origin, ctype |-> q.ctype,
            wire |-> q.wire, sig |-> q.sig]

Respond(q, response, log) ==
    [q EXCEPT !.pc = "done", !.response = response, !.log = q.log \o log]

\* The request object the handler of request r reads, own being r's request
\* as the body parser left it: its own.
LatestRequest(r, own) ==
    IF \A j \in Requests : reqs[j].pc # "idle" => j <= r THEN own
    ELSE reqs[CHOOSE i \in Requests :
                 /\ reqs[i].pc # "idle"
                 /\ \A j \in Requests : reqs[j].pc # "idle" => j <= i]

HandlerRequest(r, own) == own

\* How the processor may settle call n of request r.
ProcessorErrors == {"StripeConnectionError", "StripeCardError"}
Outcomes(r, n) ==
    {[ok |-> TRUE, intent |-> [client_secret |-> Str([k |-> "secret", of |-> <<r, n>>])]]}
    \cup {[ok |-> FALSE, err |-> [message |-> m]] : m \in ProcessorErrors}

\* The router (lines 30, 59, 92): the route's handler run on request q up to
\* its response or its await.
Route(q) ==
    IF q.route = "intent" THEN BeforeAwait(q.body)
    ELSE IF q.route = "webhook" THEN Webhook(q)
    ELSE Health

\* The CORS gate (lines 13-18) passes the request on or hands an error to
\* Express.
Gate(q) ==
    IF OriginAllowed(q.origin) THEN [q EXCEPT !.pc = "body"]
    ELSE Respond(q, DefaultErrorHandler(CorsError), <<>>)

\* The request arrives and the middleware chain starts, with the gate.
Arrive(r, sent) ==
    /\ reqs[r].pc = "idle"
    /\ r > 1 => reqs[r - 1].pc # "idle"
    /\ reqs' = [reqs EXCEPT ![r] = Gate(NewRequest(sent))]
    /\ UNCHANGED <<allowed, allowedCurrencies, endpointSecret, calls, probe>>

\* The request after the body parser gave p.
WithBody(q, p) == [q EXCEPT !.body = p.body, !.parsed = p.parsed, !.handled = TRUE]

\* The handler of request r did h: a call to the processor, or a response.
Routed(r, own, h) ==
    IF h.call
    THEN /\ reqs' = [reqs EXCEPT ![r] = [own EXCEPT !.pc = "await"]]
         /\ calls' = [calls EXCEPT ![r] = Append(@, [args |-> h.args, settled |-> FALSE])]
    ELSE /\ reqs' = [reqs EXCEPT ![r] = Respond(own, h.response, h.log) @@ h]
         /\ UNCHANGED calls

\* express.json() (line 20) gave p for request r: a failure goes to Express,
\* else the router is called.
Parsed(r, p) ==
    IF ~p.ok
    THEN /\ reqs' = [reqs EXCEPT ![r] = Respond(reqs[r], DefaultErrorHandler(p.err), <<>>)]
         /\ UNCHANGED calls
    ELSE Routed(r, WithBody(reqs[r], p),
                Route(HandlerRequest(r, WithBody(reqs[r], p))))

\* The request's body has been read: express.json() parses it and the
\* route's handler runs to its response or its await.
BodyRead(r) ==
    /\ reqs[r].pc = "body"
    /\ Parsed(r, JsonParser(reqs[r]))
    /\ UNCHANGED <<allowed, allowedCurrencies, endpointSecret, probe>>

\* The processor settles the call request r awaits (line 41) and the handler
\* resumes (lines 50-54).
Resumed(r, outcome, h) ==
    /\ calls' = [calls EXCEPT ![r][Len(calls[r])] =
                    [args |-> @.args, settled |-> TRUE, outcome |-> outcome,
                     meanwhile |-> {j \in Requests \ {r} : reqs[j].pc = "await"}]]
    /\ reqs' = [reqs EXCEPT ![r] = Respond(reqs[r], h.response, h.log)]

PaymentIntentSettled(r, outcome) ==
    /\ reqs[r].pc = "await"
    /\ Resumed(r, outcome, AfterAwait(outcome))
    /\ UNCHANGED <<allowed, allowedCurrencies, endpointSecret, probe>>

Serve ==
    \E r \in Requests :
        \/ BodyRead(r)
        \/ \E o \in Outcomes(r, Len(calls[r])) : PaymentIntentSettled(r, o)

NoProbe == [v |-> Undefined, applied |-> FALSE]

\* The server after startup with ALLOWED_ORIGINS = env and
\* STRIPE_WEBHOOK_SECRET = secret.
Started(env, secret) ==
    /\ allowed = AllowedFrom(env)
    /\ allowedCurrencies = {Chars(c) : c \in CurrencyCodes}
    /\ endpointSecret = secret
    /\ reqs = [r \in Requests |-> Idle]
    /\ calls = [r \in Requests |-> <<>>]

-----------------------------------------------------------------------------
(* What is sent to the server.                                             *)

Shop == Str(Lit("https://shop.example"))
Evil == Str(Lit("https://evil.example"))
EmptyString == Str(Chars(<<>>))

\* A JSON object body of /create-payment-intent; a property that is
\* Undefined here is one the body lacks.
Body(a, c, m) == [t |-> "object", amountInCents |-> a, currency |-> c, metadata |-> m]

IntentRequest(origin, body) ==
    [route |-> "intent", origin |-> origin, ctype |-> "application/json",
     wire |-> JsonOf(body), sig |-> Undefined]

WebhookRequest(origin, ctype, wire, sig) ==
    [route |-> "webhook", origin |-> origin, ctype |-> ctype, wire |-> wire, sig |-> sig]

HealthRequest(origin) ==
    [route |-> "health", origin |-> origin, ctype |-> "", wire |-> Undefined,
     sig |-> Undefined]

Event(type, data) == [t |-> "object", type |-> Str(Lit(type)), data |-> data]
Declined == Str(Lit("Your card was declined."))
EvFailed ==
    Event("payment_intent.payment_failed",
          [t |-> "object",
           object |-> [t |-> "object",
                       last_payment_error |-> [t |-> "object", message |-> Declined]]])
EvSucceeded ==
    Event("payment_intent.succeeded", [t |-> "object", object |-> EmptyObject])
EvSucceededNoData == [t |-> "object", type |-> Succeeded]
EvRefunded == [t |-> "object", type |-> Str(Lit("charge.refunded"))]

\* The secret the processor signs its webhooks with.
SigningSecret == Str(Lit("whsec_test"))
BadSignature == Str(Lit("t=1,v1=bad"))

Amounts == {Undefined, Whole(-5), Whole(2500), Str(Chars(<<"2", "5", "0", "0">>))}
Currencies == {Undefined, Null, Str(Chars(<<"U", "S", "D">>)), Str(Chars(<<"j", "p", "y">>))}
Metadatas == {Undefined, [t |-> "object", orderId |-> Whole(42)]}

IntentTraffic ==
    {IntentRequest(Undefined, Body(a, c, m)) :
        a \in Amounts, c \in Currencies, m \in Metadatas}
    \cup {WebhookRequest(Undefined, "application/json", JsonOf(EvRefunded), Undefined),
          HealthRequest(Undefined)}

Init == Started(Undefined, Undefined) /\ probe = NoProbe

Next ==
    \/ \E r \in Requests : \E sent \in IntentTraffic : Arrive(r, sent)
    \/ Serve

\* The server under /create-payment-intent traffic.
Spec == Init /\ [][Next]_vars

WebhookBodies ==
    {JsonOf(EvFailed), JsonOf(EvRefunded),
     JsonOf(Arr(<<Str(Lit("null"))>>)),
     JsonOf(Arr(<<Str(JsonOf(EvSucceeded))>>)),
     JsonOf(Arr(<<Str(JsonOf(EvSucceededNoData))>>)),
     JsonOf(Arr(<<Str(JsonOf(EvFailed))>>)),
     JsonOf(Arr(<<Whole(1)>>)),
     Lit("{malformed")}

Signatures(wire) == {Undefined, BadSignature, SignedBy(wire, SigningSecret)}

ValidIntent ==
    IntentRequest(Undefined, Body(Whole(2500), Str(Chars(<<"U", "S", "D">>)), Undefined))

WebhookTraffic ==
    {WebhookRequest(Undefined, "application/json", w, g) :
        <<w, g>> \in {<<w, g>> \in WebhookBodies \X
                        UNION {Signatures(x) : x \in WebhookBodies} :
                        g \in Signatures(w)}}
    \cup {WebhookRequest(Undefined, "text/plain", JsonOf(EvFailed),
                         SignedBy(JsonOf(EvFailed), SigningSecret)),
          ValidIntent, HealthRequest(Undefined)}

InitWebhook ==
    /\ \E secret \in {Undefined, SigningSecret} : Started(Undefined, secret)
    /\ probe = NoProbe

NextWebhook ==
    \/ \E r \in Requests : \E sent \in WebhookTraffic : Arrive(r, sent)
    \/ Serve

\* The server under /webhook traffic, with and without a signing secret.
SpecWebhook == InitWebhook /\ [][NextWebhook]_vars

Admin == Str(Lit("https://admin.example"))
OriginEnvs == {Undefined, Arr(<<Shop>>), Arr(<<Shop, EmptyString, Admin>>)}
Origins == {Undefined, EmptyString, Shop, Evil}

CorsTraffic ==
    UNION {{IntentRequest(o, Body(Whole(2500), Undefined, Undefined)),
            IntentRequest(o, Body(Whole(0), Undefined, Undefined)),
            WebhookRequest(o, "application/json", JsonOf(EvRefunded), Undefined),
            WebhookRequest(o, "application/json", Lit("{malformed"), Undefined),
            HealthRequest(o)} : o \in Origins}

InitCors ==
    /\ \E env \in OriginEnvs : Started(env, Undefined)
    /\ probe = NoProbe

NextCors ==
    \/ \E r \in Requests : \E sent \in CorsTraffic : Arrive(r, sent)
    \/ Serve

\* The server under traffic of every origin, with three allow-lists.
SpecCors == InitCors /\ [][NextCors]_vars

Halves(center) == {Num(2 * center + n, 2) : n \in -MaxProbe..MaxProbe}
Wholes(center) == {Whole(center + n) : n \in -MaxProbe..MaxProbe}

ProbeValues ==
    Wholes(0) \cup Wholes(MaxAmount) \cup Halves(0) \cup Halves(MaxAmount)
    \cup {Num(0, 0), Num(1, 0), Num(-1, 0), Undefined, Null, Bool(TRUE),
          Str(Chars(<<"1">>)), Str(Chars(<<"2", "5", "0", "0">>)), EmptyObject,
          Arr(<<Whole(5)>>)}

InitValidator ==
    /\ Started(Undefined, Undefined)
    /\ \E v \in ProbeValues : probe = [v |-> v, applied |-> FALSE]

Validate ==
    /\ ~probe.applied
    /\ probe' = [v |-> probe.v, applied |-> TRUE, result |-> isValidAmount(probe.v)]
    /\ UNCHANGED <<allowed, allowedCurrencies, endpointSecret, reqs, calls>>

NextValidator == Validate

\* isValidAmount applied to one value.
SpecValidator == InitValidator /\ [][NextValidator]_vars

-----------------------------------------------------------------------------
(* The claims.                                                             *)

\* The JSON body request r submitted.
Submitted(r) == reqs[r].wire.of
SubmittedAmount(r) == Get(Submitted(r), "amountInCents")
SubmittedCurrency(r) == Default(Get(Submitted(r), "currency"), Usd)
\* The requests of a route that reached its handler.
Handled(route) ==
    {r \in Requests : reqs[r].pc \in {"await", "done"} /\ reqs[r].route = route
                      /\ reqs[r].handled}
InvalidAmount == JsonResponse(400, [error |-> "Invalid amount"])
UnsupportedCurrency == JsonResponse(400, [error |-> "Unsupported currency"])
CurrencySupported(r) ==
    ToLowerCase(StringOf(SubmittedCurrency(r))) \in {Chars(c) : c \in CurrencyCodes}

\* C1: a /create-payment-intent request whose amount fails isValidAmount is
\* answered 400 "Invalid amount" (also when its currency is unsupported
\* too), one with a valid amount and an unsupported currency 400
\* "Unsupported currency", and for neither is the processor called.
C1_InvalidInputRejected ==
    \A r \in Handled("intent") :
        /\ ~isValidAmount(SubmittedAmount(r)) =>
              /\ reqs[r].pc = "done"
              /\ reqs[r].response = InvalidAmount
              /\ calls[r] = <<>>
        /\ (isValidAmount(SubmittedAmount(r)) /\ ~CurrencySupported(r)) =>
              /\ reqs[r].pc = "done"
              /\ reqs[r].response = UnsupportedCurrency
              /\ calls[r] = <<>>

\* A request with a negative amount and an unsupported currency was answered
\* "Invalid amount", and one with a valid amount and that currency
\* "Unsupported currency".
C1_Witness ==
    \E r, u \in Handled("intent") :
        /\ SubmittedAmount(r) = Whole(-5)
        /\ SubmittedAmount(u) = Whole(2500)
        /\ SubmittedCurrency(r) = Str(Chars(<<"j", "p", "y">>))
        /\ SubmittedCurrency(u) = Str(Chars(<<"j", "p", "y">>))
        /\ reqs[r].response = InvalidAmount
        /\ reqs[u].response = UnsupportedCurrency

\* C2: a valid /create-payment-intent request calls the processor exactly
\* once, with the submitted amount and the lower-cased currency ("usd" when
\* omitted), and when that call succeeds the response is 200 with the
\* client secret that call returned.
C2_SuccessReturnsOwnSecret ==
    \A r \in Handled("intent") :
        (isValidAmount(SubmittedAmount(r)) /\ CurrencySupported(r)) =>
            /\ Len(calls[r]) = 1
            /\ calls[r][1].args.amount = SubmittedAmount(r)
            /\ calls[r][1].args.currency = ToLowerCase(StringOf(SubmittedCurrency(r)))
            /\ calls[r][1].args.currency \in {Chars(c) : c \in CurrencyCodes}
            /\ (reqs[r].pc = "done" /\ calls[r][1].outcome.ok) =>
                  reqs[r].response =
                      JsonResponse(200, [clientSecret |->
                                            calls[r][1].outcome.intent.client_secret])

\* A request that sent "USD" got 200 with its secret while another request
\* was suspended at its own processor call.
C2_Witness ==
    \E r \in Handled("intent") :
        /\ reqs[r].pc = "done"
        /\ SubmittedCurrency(r) = Str(Chars(<<"U", "S", "D">>))
        /\ calls[r] # <<>>
        /\ calls[r][1].outcome.ok
        /\ calls[r][1].meanwhile # {}
        /\ reqs[r].response.status = 200

ServerError == JsonResponse(500, [error |-> "Server error"])

\* C3: when the processor call fails the response is 500 "Server error",
\* the processor was called once, and nothing of the processor's error is
\* in the response body.
C3_FailureIsGeneric ==
    \A r \in Handled("intent") :
        (reqs[r].pc = "done" /\ calls[r] # <<>> /\ ~calls[r][1].outcome.ok) =>
            /\ reqs[r].response = ServerError
            /\ Len(calls[r]) = 1
            /\ \A f \in DOMAIN reqs[r].response.json :
                  reqs[r].response.json[f] # calls[r][1].outcome.err.message

\* A processor call failed with a card error and the request was answered
\* 500, the error logged.
C3_Witness ==
    \E r \in Handled("intent") :
        /\ reqs[r].pc = "done"
        /\ calls[r] # <<>>
        /\ ~calls[r][1].outcome.ok
        /\ calls[r][1].outcome.err.message = "StripeCardError"
        /\ reqs[r].response.status = 500
        /\ reqs[r].log = <<[level |-> "error", text |-> "StripeCardError"]>>

Webhooks == Handled("webhook")

\* C4: with a signing secret configured, an application/json webhook with
\* a validly signed payment_intent.payment_failed event reaches the handler
\* as raw bytes, is verified, logs a warning with the failure message and
\* is answered 200 {received: true}.
C4_SignedEventAcknowledged ==
    \A r \in Requests :
        (/\ reqs[r].pc = "done"
         /\ reqs[r].route = "webhook"
         /\ reqs[r].ctype = "application/json"
         /\ Truthy(endpointSecret)
         /\ reqs[r].wire = JsonOf(EvFailed)
         /\ reqs[r].sig = SignedBy(reqs[r].wire, endpointSecret)) =>
            /\ reqs[r].handled
            /\ reqs[r].given = Buffer(reqs[r].wire)
            /\ reqs[r].obtained
            /\ \E i \in 1..Len(reqs[r].log) :
                  reqs[r].log[i].level = "warn" /\ reqs[r].log[i].arg = Declined
            /\ reqs[r].response = Received

\* The response to a failed verification.
WebhookError(r) ==
    SendResponse(400, <<"Webhook Error: ",
                        ConstructEvent(reqs[r].given, reqs[r].sig, endpointSecret).message>>)

\* C5: with a signing secret configured, when verification fails the
\* response is 400 "Webhook Error: " followed by the failure message, and
\* the event is not dispatched: no branch of the switch runs and no warning
\* is logged.
C5_VerifyFailureRejected ==
    \A r \in Webhooks :
        (Truthy(endpointSecret) /\ ~reqs[r].obtained) =>
            /\ reqs[r].verifier
            /\ reqs[r].response = WebhookError(r)
            /\ reqs[r].branch = "none"
            /\ \A i \in 1..Len(reqs[r].log) : reqs[r].log[i].level # "warn"

\* A webhook with a bad signature was answered 400 with the verifier's
\* message.
C5_Witness ==
    \E r \in Webhooks :
        /\ Truthy(endpointSecret)
        /\ reqs[r].sig = BadSignature
        /\ ~reqs[r].obtained
        /\ reqs[r].response =
              SendResponse(400, <<"Webhook Error: ",
                                  "Unable to extract timestamp and signatures from header">>)

\* C6: once the handler has an event the response is 200 {received: true},
\* whatever the event; any other response means verification or parsing
\* failed.
C6_EventAlwaysAcknowledged ==
    \A r \in Webhooks :
        /\ reqs[r].obtained => reqs[r].response = Received
        /\ reqs[r].response # Received => ~reqs[r].obtained

\* C7: without a signing secret the verifier is never invoked, and every
\* body that is the JSON of an event is parsed, dispatched on its type and
\* answered 200 {received: true}, whatever the signature header.
C7_UnverifiedFallbackAcknowledges ==
    \A r \in Requests :
        (/\ reqs[r].pc = "done"
         /\ reqs[r].route = "webhook"
         /\ ~Truthy(endpointSecret)
         /\ reqs[r].wire.k = "json"
         /\ reqs[r].wire.of \in {EvRefunded, EvFailed}) =>
            /\ reqs[r].handled
            /\ ~reqs[r].verifier
            /\ reqs[r].obtained
            /\ reqs[r].event = reqs[r].wire.of
            /\ reqs[r].branch =
                  (IF reqs[r].event = EvFailed THEN "payment_failed" ELSE "default")
            /\ reqs[r].response = Received

\* The requests that have met the gate.
Arrived == {r \in Requests : reqs[r].pc # "idle"}
CorsRejection == [status |-> 500, page |-> "Not allowed by CORS"]
NoOriginHeader(r) == reqs[r].origin = Undefined
OnAllowList(r) == \E i \in 1..Len(allowed) : allowed[i] = reqs[r].origin

\* C8 as stated: a route handler runs for a request iff it has no Origin
\* header, or the allow-list is empty, or its origin is on the allow-list;
\* every other request is rejected by the gate before body parsing and
\* handlers, and the processor is never called for it.
C8_HandlerRunsIffPermitted ==
    \A r \in Requests :
        reqs[r].pc \in {"await", "done"} =>
            /\ reqs[r].handled <=>
                  (NoOriginHeader(r) \/ Len(allowed) = 0 \/ OnAllowList(r))
            /\ ~reqs[r].handled =>
                  /\ reqs[r].response = CorsRejection
                  /\ ~reqs[r].parsed
                  /\ calls[r] = <<>>

\* C8 amended: a request passes the gate iff it has no Origin header or an
\* empty one, or the allow-list is empty, or its origin is on the list.
\* Every other request is answered by Express's error handler with the
\* gate's error (status 500), its body never parsed, no handler run and no
\* processor call made.  A request that passed reaches its route's handler
\* unless the JSON body parser rejects its body with 400.
C8_GatePassesIffPermitted ==
    \A r \in Arrived :
        LET permitted == \/ NoOriginHeader(r)
                         \/ reqs[r].origin = EmptyString
                         \/ Len(allowed) = 0
                         \/ OnAllowList(r)
        IN /\ ~permitted =>
                /\ reqs[r].pc = "done"
                /\ reqs[r].response = CorsRejection
                /\ reqs[r].body = Undefined
                /\ ~reqs[r].parsed
                /\ ~reqs[r].handled
                /\ calls[r] = <<>>
           /\ permitted =>
                /\ reqs[r].response # CorsRejection
                /\ reqs[r].pc = "done" =>
                      \/ reqs[r].handled
                      \/ /\ reqs[r].response =
                               [status |-> 400, page |-> "entity.parse.failed"]
                         /\ calls[r] = <<>>

\* With an allow-list that does not hold it, a request from another origin
\* was rejected at the gate, and one from a listed origin got its call made.
C8_Witness ==
    \E r, u \in Arrived :
        /\ Len(allowed) > 0
        /\ reqs[r].origin = Evil
        /\ reqs[r].route = "intent"
        /\ reqs[r].response = CorsRejection
        /\ reqs[u].origin = Shop
        /\ reqs[u].route = "intent"
        /\ calls[u] # <<>>

\* The whole number a finite number v is, if it is one.
IsWhole(v, n) == v.t = "number" /\ v.den > 0 /\ n * v.den = v.num

Alone(sent) ==
    IF ~OriginAllowed(sent.origin)
    THEN [call |-> FALSE, response |-> DefaultErrorHandler(CorsError)]
    ELSE IF ~JsonParser(NewRequest(sent)).ok
    THEN [call |-> FALSE, response |-> DefaultErrorHandler(JsonParser(NewRequest(sent)).err)]
    ELSE Route(WithBody(NewRequest(sent), JsonParser(NewRequest(sent))))

Isolated(r) ==
    IF Alone(Sent(reqs[r])).call
    THEN /\ Len(calls[r]) = 1
         /\ calls[r][1].args = Alone(Sent(reqs[r])).args
         /\ reqs[r].pc = "done" =>
               reqs[r].response = AfterAwait(calls[r][1].outcome).response
    ELSE /\ calls[r] = <<>>
         /\ reqs[r].pc = "done"
         /\ reqs[r].response = Alone(Sent(reqs[r])).response

\* C10: whatever the other requests and the interleaving, each request's
\* response and processor call are those of the request handled alone, and
\* the origin allow-list and the currency allow-set never change.
C10_RequestsIndependent ==
    /\ [](\A r \in Requests : reqs[r].pc \in {"await", "done"} => Isolated(r))
    /\ [][allowed' = allowed /\ allowedCurrencies' = allowedCurrencies]_vars

\* Two requests with different currencies were suspended at the processor
\* together; one succeeded and the other failed.
C10_Witness ==
    \E r, u \in Handled("intent") :
        /\ reqs[r].pc = "done" /\ reqs[u].pc = "done"
        /\ calls[r] # <<>> /\ calls[u] # <<>>
        /\ calls[r][1].meanwhile = {u}
        /\ calls[r][1].args.metadata # calls[u][1].args.metadata
        /\ calls[r][1].outcome.ok
        /\ ~calls[u][1].outcome.ok

=============================================================================
